---- MODULE Spec2Model ----
(***************************************************************************)
(* State-machine model of WhatsAppService (src/server/whatsapp.ts): the    *)
(* connection lifecycle (initialize, connectToWhatsApp, the                *)
(* connection.update handler, the reconnect timer, disconnect), the        *)
(* outbound path (sendMessage) and the inbound path (the messages.upsert   *)
(* handler).  Every `await` of the source is a point where the event loop  *)
(* may run another callback, so each async method is a task that advances  *)
(* one await at a time.                                                    *)
(***************************************************************************)
EXTENDS Integers, Sequences, FiniteSets, TLC

\* ---------------------------------------------------------------- bounds
MaxAttempts == 2
MaxQR == 1
MaxDisconnects == 1
MaxSends == 1
\* calls and handlers suspended at an await at the same time
MaxTasks == 2
\* inbound batches delivered in a run, and items in a batch
MaxBatches == 1
MaxBatchLen == 3

\* ------------------------------------------------------------- constants
\* null: of this.sock (socket ids start at 1) and of a QR value (from 1)
Null == 0
LoggedOut == 401
ConnectionClosed == 428
\* the code field of an update that is not a closure
NoStatus == -1
\* DisconnectReason.loggedOut and one of the other reasons
StatusCodes == {LoggedOut, ConnectionClosed}

\* a socket is named by the attempt that made it
SockIds == 1..MaxAttempts

\* "@s.whatsapp.net", line 195
DefaultDomain == <<"@", "s", ".", "w", "h", "a", "t", "s", "a", "p", "p",
                   ".", "n", "e", "t">>
\* sock.user.id of an authenticated socket, "15:7@s.whatsapp.net"
UserId == <<"1", "5", ":", "7">> \o DefaultDomain
GroupChat == <<"9", "@", "g", ".", "u", "s">>
\* the destinations sendMessage is called with: a bare number and a group
\* identifier
Destinations == {<<"4">>, GroupChat}

VARIABLES
    sock,           \* this.sock: a socket id, or Null
    io,             \* this.io is set
    isInitialized,  \* this.isInitialized
    qrCode,         \* this.qrCode
    session,        \* the persisted Session record (storage)
    contacts,       \* the persisted Contacts, keyed by chat identifier
    messages,       \* the persisted Messages, append-only
    sockState,      \* per created socket: "none", "connecting", "open", "closed"
    sockUser,       \* per socket: it authenticated, so sock.user is set
    timers,         \* pending setTimeout reconnect callbacks
    tasks,          \* async calls suspended at an await
    attempts,       \* calls of connectToWhatsApp so far
    nqr,            \* QR challenges received so far
    ndisc,          \* calls of disconnect() so far
    nsend,          \* calls of sendMessage() so far
    emitted,        \* what the last step emitted on io
    ret,            \* what the last step returned to a caller of the service
    lastTransition, \* history: the last Open/Closed event delivered
    lastWrite,      \* history: the writer of the last applied Session write
    discWithTimer,  \* history: disconnect() was called and has returned with
                    \* a reconnect timer pending, and no initialize() since
    closure,        \* history: "logout" or "retry" after a closure with or
                    \* without the logged-out code, "none" once a connection
                    \* establishment or disconnect() was started after it
    ingested        \* history: per inbound batch, its items, the indices
                    \* whose writes were all applied and those with a
                    \* rejected write

vars == <<sock, io, isInitialized, qrCode, session, contacts, messages,
          sockState, sockUser, timers, tasks, attempts, nqr, ndisc,
          nsend, emitted, ret, lastTransition, lastWrite, discWithTimer,
          closure, ingested>>

\* ---------------------------------------------------------------- helpers
\* strings are sequences of characters
At == <<"@">>
Colon == <<":">>
GroupDomain == <<"@", "g", ".", "u", "s">>

\* str.indexOf(sub) counted from 1, 0 when sub does not occur
RECURSIVE IndexOf(_, _, _)
IndexOf(str, sub, i) ==
    IF i + Len(sub) - 1 > Len(str) THEN 0
    ELSE IF SubSeq(str, i, i + Len(sub) - 1) = sub THEN i
    ELSE IndexOf(str, sub, i + 1)

\* str.includes(sub)
Includes(str, sub) == IndexOf(str, sub, 1) # 0

\* str.split(sep)[0]
SplitFirst(str, sep) ==
    IF Includes(str, sep) THEN SubSeq(str, 1, IndexOf(str, sep, 1) - 1) ELSE str

\* this.sock?.user?.id?.split(":")[0] || null
PhoneNumber(users) ==
    IF sock # Null /\ users[sock] /\ SplitFirst(UserId, Colon) # <<>>
    THEN SplitFirst(UserId, Colon)
    ELSE <<>>

\* storage.updateSession(partial): the fields given replace the stored ones
UpdateSession(sess, patch) ==
    [k \in DOMAIN sess |-> IF k \in DOMAIN patch THEN patch[k] ELSE sess[k]]

\* storage.createOrUpdateContact(contact): upsert by id
UpsertContact(cs, c) ==
    [k \in DOMAIN cs \cup {c.id} |-> IF k = c.id THEN c ELSE cs[k]]

\* lines 74-77
QrPatch(qr) == [qrCode |-> qr, isConnected |-> FALSE]
\* lines 87-91
ClosePatch == [isConnected |-> FALSE, phoneNumber |-> <<>>, qrCode |-> Null]
\* the open write with isConnected left false
OpenPatchDisconnected(phone) ==
    [phoneNumber |-> phone, isConnected |-> FALSE, qrCode |-> Null,
     lastConnected |-> TRUE]
\* the open write that forgets to clear qrCode
OpenPatchKeepsQr(phone) ==
    [phoneNumber |-> phone, isConnected |-> TRUE, lastConnected |-> TRUE]
\* lines 106-111
OpenPatch(phone) ==
    [phoneNumber |-> phone, isConnected |-> TRUE, qrCode |-> Null,
     lastConnected |-> TRUE]
\* lines 235-239
DisconnectPatch == [isConnected |-> FALSE, phoneNumber |-> <<>>, qrCode |-> Null]

\* lines 82-83
ShouldReconnect(code) == code # LoggedOut

Live(s) == sockState[s] \in {"connecting", "open"}
LiveSocks == {s \in SockIds : Live(s)}

NoRet == [op |-> "none"]
\* the event loop takes up another callback or call
Room == Cardinality(tasks) < MaxTasks
Emit(e) == IF io THEN <<e>> ELSE <<>>

\* ------------------------------------------------------------------- init
Init ==
    /\ sock = Null
    /\ io = FALSE
    /\ isInitialized = FALSE
    /\ qrCode = Null
    /\ session = [phoneNumber |-> <<>>, isConnected |-> FALSE, qrCode |-> Null,
                  lastConnected |-> FALSE]
    /\ contacts = <<>>
    /\ messages = <<>>
    /\ sockState = [s \in SockIds |-> "none"]
    /\ sockUser = [s \in SockIds |-> FALSE]
    /\ timers = 0
    /\ tasks = {}
    /\ attempts = 0
    /\ nqr = 0
    /\ ndisc = 0
    /\ nsend = 0
    /\ emitted = <<>>
    /\ ret = NoRet
    /\ lastTransition = "none"
    /\ lastWrite = "none"
    /\ discWithTimer = FALSE
    /\ closure = "none"
    /\ ingested = <<>>

\* ------------------------------------------------- initialize and connect
ConnectTask(n, from) == [kind |-> "connect", id |-> n, from |-> from]

\* the check of line 23 never succeeds (used to show what C14 rests on)
InitializedCheckSkipped == FALSE

\* the check of line 23
AlreadyInitialized == isInitialized

\* initialize(io): lines 22-33, up to the await of connectToWhatsApp()
Initialize ==
    /\ emitted' = <<>>
    /\ discWithTimer' = FALSE
    /\ IF AlreadyInitialized
       THEN /\ ret' = [op |-> "initialize", res |-> "noop"]
            /\ UNCHANGED <<io, isInitialized, attempts, tasks, closure>>
       ELSE /\ attempts < MaxAttempts
            /\ Room
            /\ io' = TRUE
            /\ isInitialized' = TRUE
            /\ attempts' = attempts + 1
            /\ tasks' = tasks \cup {ConnectTask(attempts + 1, "init")}
            /\ closure' = "none"
            /\ ret' = NoRet
    /\ UNCHANGED <<sock, qrCode, session, contacts, messages, sockState,
                   sockUser, timers, nqr, ndisc, lastTransition, lastWrite, nsend,
                   ingested>>

\* connectToWhatsApp(), lines 41-64, once its awaits settle: the socket is
\* made and becomes this.sock, or the establishment throws; initialize()'s
\* catch (lines 34-37) logs and rethrows
ConnectDone(t, ok) ==
    /\ t \in tasks /\ t.kind = "connect"
    /\ tasks' = tasks \ {t}
    /\ emitted' = <<>>
    /\ IF ok
       THEN /\ sock' = t.id
            /\ sockState' = [sockState EXCEPT ![t.id] = "connecting"]
       ELSE UNCHANGED <<sock, sockState>>
    /\ ret' = IF t.from = "init"
              THEN [op |-> "initialize", res |-> IF ok THEN "ok" ELSE "error"]
              ELSE NoRet
    /\ UNCHANGED <<io, isInitialized, qrCode, session, contacts, messages,
                   sockUser, timers, attempts, nqr, ndisc, lastTransition,
                   lastWrite, discWithTimer, nsend, closure, ingested>>

\* the setTimeout callback of lines 96-98
TimerFire ==
    /\ timers > 0
    /\ attempts < MaxAttempts
    /\ Room
    /\ timers' = timers - 1
    /\ attempts' = attempts + 1
    /\ tasks' = tasks \cup {ConnectTask(attempts + 1, "timer")}
    /\ closure' = "none"
    /\ emitted' = <<>>
    /\ ret' = NoRet
    /\ UNCHANGED <<sock, io, isInitialized, qrCode, session, contacts,
                   messages, sockState, sockUser, nqr, ndisc, lastTransition,
                   lastWrite, discWithTimer, nsend, ingested>>

\* ------------------------------------------------- handleConnectionUpdate
UpdateTask(s, u, pc, ok) ==
    [kind |-> "update", s |-> s, qr |-> u.qr, connection |-> u.connection,
     code |-> u.code, pc |-> pc, ok |-> ok]

Update(t) == [qr |-> t.qr, connection |-> t.connection, code |-> t.code]

\* lines 81-115 up to the await of storage.updateSession: the write is
\* issued (and applied unless the storage fails, ok = FALSE)
ConnectionBranch(s, u, ok, rest, users) ==
    IF u.connection = "close"
    THEN /\ session' = IF ok THEN UpdateSession(session, ClosePatch) ELSE session
         /\ lastWrite' = IF ok THEN "close" ELSE lastWrite
         /\ tasks' = rest \cup {UpdateTask(s, u, "close", ok)}
         /\ ret' = NoRet
         /\ UNCHANGED qrCode
    ELSE IF u.connection = "open"
    THEN /\ qrCode' = Null
         /\ session' = IF ok THEN UpdateSession(session, OpenPatch(PhoneNumber(users)))
                       ELSE session
         /\ lastWrite' = IF ok THEN "open" ELSE lastWrite
         /\ tasks' = rest \cup {UpdateTask(s, u, "open", ok)}
         /\ ret' = NoRet
    ELSE /\ tasks' = rest
         /\ ret' = NoRet
         /\ UNCHANGED <<qrCode, session, lastWrite>>

\* handleConnectionUpdate(update) from its call to its first await
\* (lines 67-77, or 81-111 when the update carries no qr)
HandleConnectionUpdate(s, u, ok, users) ==
    IF u.qr # Null
    THEN /\ qrCode' = u.qr
         /\ session' = IF ok THEN UpdateSession(session, QrPatch(u.qr)) ELSE session
         /\ lastWrite' = IF ok THEN "qr" ELSE lastWrite
         /\ tasks' = tasks \cup {UpdateTask(s, u, "qr", ok)}
         /\ ret' = NoRet
    ELSE ConnectionBranch(s, u, ok, tasks, users)

\* the socket reports a QR challenge (connection.update {qr})
SockQR(s, ok) ==
    /\ sockState[s] = "connecting"
    /\ Room
    /\ nqr < MaxQR
    /\ nqr' = nqr + 1
    /\ HandleConnectionUpdate(s, [qr |-> nqr + 1, connection |-> "none",
                                  code |-> NoStatus], ok, sockUser)
    /\ emitted' = <<>>
    /\ UNCHANGED <<sock, io, isInitialized, contacts, messages, sockState,
                   sockUser, timers, attempts, ndisc, lastTransition,
                   discWithTimer, nsend, closure, ingested>>

\* the socket reports a successful authentication
SockOpen(s, ok) ==
    /\ sockState[s] = "connecting"
    /\ Room
    /\ sockState' = [sockState EXCEPT ![s] = "open"]
    /\ sockUser' = [sockUser EXCEPT ![s] = TRUE]
    /\ lastTransition' = "open"
    /\ HandleConnectionUpdate(s, [qr |-> Null, connection |-> "open",
                                  code |-> NoStatus], ok,
                              [sockUser EXCEPT ![s] = TRUE])
    /\ emitted' = <<>>
    /\ UNCHANGED <<sock, io, isInitialized, contacts, messages, timers,
                   attempts, nqr, ndisc, discWithTimer, nsend, closure,
                   ingested>>

\* the socket reports its closure, with the status code of lastDisconnect
SockClose(s, code, ok) ==
    /\ Live(s)
    /\ Room
    /\ sockState' = [sockState EXCEPT ![s] = "closed"]
    /\ lastTransition' = "closed"
    /\ closure' = IF ShouldReconnect(code) THEN "retry" ELSE "logout"
    /\ HandleConnectionUpdate(s, [qr |-> Null, connection |-> "close",
                                  code |-> code], ok, sockUser)
    /\ emitted' = <<>>
    /\ UNCHANGED <<sock, io, isInitialized, contacts, messages, sockUser,
                   timers, attempts, nqr, ndisc, discWithTimer, nsend,
                   ingested>>

\* after the await of line 74: a rejected write ends the handler (nothing
\* catches it); otherwise line 78, then lines 81-115 to their first await
QrResume(t, ok) ==
    /\ t \in tasks /\ t.kind = "update" /\ t.pc = "qr"
    /\ IF t.ok
       THEN /\ emitted' = Emit([name |-> "qr", qr |-> t.qr])
            /\ ConnectionBranch(t.s, Update(t), ok, tasks \ {t}, sockUser)
       ELSE /\ emitted' = <<>>
            /\ tasks' = tasks \ {t}
            /\ ret' = NoRet
            /\ UNCHANGED <<qrCode, session, lastWrite>>
    /\ UNCHANGED <<sock, io, isInitialized, contacts, messages, sockState,
                   sockUser, timers, attempts, nqr, ndisc, lastTransition,
                   discWithTimer, nsend, closure, ingested>>

\* after the await of line 87: lines 93-99
CloseResume(t) ==
    /\ t \in tasks /\ t.kind = "update" /\ t.pc = "close"
    /\ tasks' = tasks \ {t}
    /\ IF t.ok
       THEN /\ emitted' = Emit([name |-> "disconnected"])
            /\ timers' = IF ShouldReconnect(t.code) THEN timers + 1 ELSE timers
            /\ ret' = NoRet
       ELSE /\ emitted' = <<>>
            /\ ret' = NoRet
            /\ UNCHANGED timers
    /\ UNCHANGED <<sock, io, isInitialized, qrCode, session, contacts,
                   messages, sockState, sockUser, attempts, nqr, ndisc,
                   lastTransition, lastWrite, discWithTimer, nsend, closure,
                   ingested>>

GroupContact(chatId) ==
    [id |-> chatId, number |-> SplitFirst(chatId, At),
     isGroup |-> Includes(chatId, GroupDomain)]

\* loadContacts(), lines 157-181: nothing without a socket; otherwise the
\* chats fetched are upserted, and a failed fetch or a failed upsert is
\* caught and logged
LoadContacts(fetched, ok) ==
    IF sock # Null /\ fetched /\ ok
    THEN UpsertContact(contacts, GroupContact(GroupChat))
    ELSE contacts

\* after the await of line 106: a rejected write ends the handler; otherwise
\* line 113 and loadContacts()
OpenResume(t, fetched, ok) ==
    /\ t \in tasks /\ t.kind = "update" /\ t.pc = "open"
    /\ tasks' = tasks \ {t}
    /\ IF t.ok
       THEN /\ emitted' = Emit([name |-> "ready"])
            /\ contacts' = LoadContacts(fetched, ok)
       ELSE /\ emitted' = <<>>
            /\ UNCHANGED contacts
    /\ ret' = NoRet
    /\ UNCHANGED <<sock, io, isInitialized, qrCode, session, messages,
                   sockState, sockUser, timers, attempts, nqr, ndisc, nsend,
                   lastTransition, lastWrite, discWithTimer, closure, ingested>>

\* ------------------------------------------------------------- disconnect
\* pend: a reconnect timer was pending when disconnect() was called
DisconnectTask(n, pc, s, ok, pend, open) ==
    [kind |-> "disconnect", id |-> n, pc |-> pc, s |-> s, ok |-> ok,
     pend |-> pend, open |-> open]

\* disconnect(), lines 228-235, up to its first await: sock.logout() when
\* there is a socket, storage.updateSession otherwise
Disconnect(ok) ==
    /\ ndisc < MaxDisconnects
    /\ Room
    /\ ndisc' = ndisc + 1
    /\ closure' = "none"
    /\ IF sock # Null
       THEN /\ tasks' = tasks \cup {DisconnectTask(ndisc + 1, "logout", sock,
                                                   TRUE, timers > 0,
                                                   sockState[sock] = "open")}
            /\ UNCHANGED <<session, lastWrite>>
       ELSE /\ tasks' = tasks \cup {DisconnectTask(ndisc + 1, "update", Null,
                                                   ok, timers > 0, FALSE)}
            /\ session' = IF ok THEN UpdateSession(session, DisconnectPatch)
                          ELSE session
            /\ lastWrite' = IF ok THEN "disconnect" ELSE lastWrite
    /\ emitted' = <<>>
    /\ ret' = NoRet
    /\ UNCHANGED <<sock, io, isInitialized, qrCode, contacts, messages,
                   sockState, sockUser, timers, attempts, nqr, lastTransition,
                   discWithTimer, nsend, ingested>>

\* after the await of line 231.  A logout that succeeds ends its socket with
\* the logged-out code, whose close event is handled at once (lines 81-91);
\* then line 232 and the write of line 235.  A logout that throws goes to
\* the catch of lines 243-246, which logs and rethrows.
LogoutResume(t, loggedOut, okClose, ok) ==
    /\ t \in tasks /\ t.kind = "disconnect" /\ t.pc = "logout"
    /\ emitted' = <<>>
    /\ IF loggedOut
       THEN /\ sock' = Null
            /\ sockState' = [sockState EXCEPT
                                ![t.s] = IF Live(t.s) THEN "closed" ELSE @]
            /\ lastTransition' = IF Live(t.s) THEN "closed" ELSE lastTransition
            /\ closure' = IF Live(t.s) THEN "logout" ELSE closure
            /\ session' = IF ok \/ (Live(t.s) /\ okClose)
                          THEN UpdateSession(session, DisconnectPatch)
                          ELSE session
            /\ lastWrite' = IF ok THEN "disconnect"
                            ELSE IF Live(t.s) /\ okClose THEN "close"
                            ELSE lastWrite
            /\ tasks' = ((tasks \ {t})
                         \cup {DisconnectTask(t.id, "update", t.s, ok, t.pend,
                                              t.open)})
                        \cup (IF Live(t.s)
                              THEN {UpdateTask(t.s, [qr |-> Null,
                                                     connection |-> "close",
                                                     code |-> LoggedOut],
                                               "close", okClose)}
                              ELSE {})
            /\ ret' = NoRet
       ELSE /\ tasks' = tasks \ {t}
            /\ ret' = [op |-> "disconnect", res |-> "error",
                       logoutFailed |-> TRUE, fromOpen |-> t.open]
            /\ UNCHANGED <<sock, sockState, lastTransition, closure, session,
                           lastWrite>>
    /\ UNCHANGED <<io, isInitialized, qrCode, contacts, messages, sockUser,
                   timers, attempts, nqr, ndisc, discWithTimer, nsend,
                   ingested>>

\* after the await of line 235: lines 241-242, or the catch of lines 243-246
DisconnectResume(t) ==
    /\ t \in tasks /\ t.kind = "disconnect" /\ t.pc = "update"
    /\ tasks' = tasks \ {t}
    /\ emitted' = <<>>
    /\ IF t.ok
       THEN /\ isInitialized' = FALSE
            /\ discWithTimer' = (t.pend /\ timers > 0)
            /\ ret' = [op |-> "disconnect", res |-> "ok",
                       logoutFailed |-> FALSE, fromOpen |-> t.open]
       ELSE /\ ret' = [op |-> "disconnect", res |-> "error",
                       logoutFailed |-> FALSE, fromOpen |-> t.open]
            /\ UNCHANGED <<isInitialized, discWithTimer>>
    /\ UNCHANGED <<sock, io, qrCode, session, contacts, messages, sockState,
                   sockUser, timers, attempts, nqr, ndisc, lastTransition,
                   lastWrite, nsend, closure, ingested>>

\* ------------------------------------------------------------ sendMessage
\* the domain appended whatever the destination
ChatIdAlwaysSuffixed(to) == to \o DefaultDomain

\* lines 193-196
ChatId(to) == IF ~Includes(to, At) THEN to \o DefaultDomain ELSE to

SendTask(n, to) ==
    [kind |-> "send", id |-> n, to |-> to, pc |-> "session",
     connected |-> session.isConnected, s |-> Null, chatId |-> <<>>,
     sent |-> FALSE, ok |-> TRUE, transported |-> FALSE, writes |-> 0]

\* what sendMessage returns or throws; cause names the failure: "session"
\* (lines 184-191), "transport" (line 199), "persist" (a rejected storage
\* write), "nosock" (this.sock is null by then)
SendRet(t, res, cause) ==
    [op |-> "send", res |-> res, cause |-> cause, to |-> t.to,
     hadSock |-> TRUE, sawConnected |-> t.connected,
     transported |-> t.transported, sent |-> t.sent, writes |-> t.writes]

\* the connectivity check left out
SessionCheckSkipped(t) == FALSE
\* line 189: !session?.isConnected
SessionNotConnected(t) == ~t.connected

\* the Message of lines 212-219
OutboundMessage(to) ==
    [chatId |-> ChatId(to),
     from |-> IF sockUser[sock] THEN UserId ELSE ChatId(to),
     to |-> ChatId(to), isFromMe |-> TRUE]

\* lines 212-219 up to the await: this.sock.user of a null sock throws into
\* the catch of lines 222-225, otherwise storage.createMessage is issued
CreateMessage(t, ok, rest) ==
    IF sock = Null
    THEN /\ tasks' = rest
         /\ ret' = SendRet(t, "sendFailed", "nosock")
         /\ UNCHANGED messages
    ELSE /\ messages' = IF ok THEN Append(messages, OutboundMessage(t.to))
                        ELSE messages
         /\ tasks' = rest \cup {[t EXCEPT !.pc = "message", !.ok = ok,
                                          !.writes = t.writes + 1]}
         /\ ret' = NoRet

\* sendMessage(to, message), lines 183-188, up to the await of getSession
SendMessage(to) ==
    /\ nsend < MaxSends
    /\ Room
    /\ nsend' = nsend + 1
    /\ IF sock = Null
       THEN /\ ret' = [op |-> "send", res |-> "notConnected",
                       cause |-> "session", to |-> to, hadSock |-> FALSE,
                       sawConnected |-> session.isConnected,
                       transported |-> FALSE, sent |-> FALSE, writes |-> 0]
            /\ UNCHANGED tasks
       ELSE /\ tasks' = tasks \cup {SendTask(nsend + 1, to)}
            /\ ret' = NoRet
    /\ emitted' = <<>>
    /\ UNCHANGED <<sock, io, isInitialized, qrCode, session, contacts,
                   messages, sockState, sockUser, timers, attempts, nqr, ndisc,
                   lastTransition, lastWrite, discWithTimer, closure, ingested>>

\* after the await of line 188: lines 189-199, up to the await of the
\* transport send, which is issued on this.sock as it is now with the chat
\* id of lines 193-196
SendSessionResume(t, sent) ==
    /\ t \in tasks /\ t.kind = "send" /\ t.pc = "session"
    /\ IF SessionNotConnected(t)
       THEN /\ tasks' = tasks \ {t}
            /\ ret' = SendRet(t, "notConnected", "session")
       ELSE IF sock = Null
       THEN /\ tasks' = tasks \ {t}
            /\ ret' = SendRet(t, "sendFailed", "nosock")
       ELSE /\ sent => sockState[sock] = "open"
            /\ tasks' = (tasks \ {t})
                        \cup {[t EXCEPT !.pc = "transport", !.s = sock,
                                        !.chatId = ChatId(t.to),
                                        !.sent = sent, !.transported = TRUE]}
            /\ ret' = NoRet
    /\ emitted' = <<>>
    /\ UNCHANGED <<sock, io, isInitialized, qrCode, session, contacts,
                   messages, sockState, sockUser, timers, attempts, nqr, ndisc,
                   nsend, lastTransition, lastWrite, discWithTimer, closure,
                   ingested>>

\* after the await of line 199: a failed send goes to the catch of lines
\* 222-225; otherwise getContact (line 201), then lines 202-209 up to the
\* await of the upsert, or lines 212-219 when the contact is known
SendTransportResume(t, ok) ==
    /\ t \in tasks /\ t.kind = "send" /\ t.pc = "transport"
    /\ IF ~t.sent
       THEN /\ tasks' = tasks \ {t}
            /\ ret' = SendRet(t, "sendFailed", "transport")
            /\ UNCHANGED <<contacts, messages>>
       ELSE IF ChatId(t.to) \notin DOMAIN contacts
       THEN /\ contacts' =
                 IF ok
                 THEN UpsertContact(contacts,
                         [id |-> ChatId(t.to), number |-> t.to,
                          isGroup |-> Includes(ChatId(t.to), GroupDomain)])
                 ELSE contacts
            /\ tasks' = (tasks \ {t})
                        \cup {[t EXCEPT !.pc = "upsert", !.ok = ok,
                                        !.writes = t.writes + 1]}
            /\ ret' = NoRet
            /\ UNCHANGED messages
       ELSE /\ CreateMessage(t, ok, tasks \ {t})
            /\ UNCHANGED contacts
    /\ emitted' = <<>>
    /\ UNCHANGED <<sock, io, isInitialized, qrCode, session, sockState,
                   sockUser, timers, attempts, nqr, ndisc, nsend,
                   lastTransition, lastWrite, discWithTimer, closure, ingested>>

\* after the await of line 203: a rejected upsert goes to the catch of
\* lines 222-225, otherwise lines 212-219
SendUpsertResume(t, ok) ==
    /\ t \in tasks /\ t.kind = "send" /\ t.pc = "upsert"
    /\ IF t.ok
       THEN CreateMessage(t, ok, tasks \ {t})
       ELSE /\ tasks' = tasks \ {t}
            /\ ret' = SendRet(t, "sendFailed", "persist")
            /\ UNCHANGED messages
    /\ emitted' = <<>>
    /\ UNCHANGED <<sock, io, isInitialized, qrCode, session, contacts,
                   sockState, sockUser, timers, attempts, nqr, ndisc, nsend,
                   lastTransition, lastWrite, discWithTimer, closure, ingested>>

\* after the await of line 212: line 221, or the catch of lines 222-225
SendMessageResume(t) ==
    /\ t \in tasks /\ t.kind = "send" /\ t.pc = "message"
    /\ tasks' = tasks \ {t}
    /\ ret' = IF t.ok THEN SendRet(t, "ok", "none")
              ELSE SendRet(t, "sendFailed", "persist")
    /\ emitted' = <<>>
    /\ UNCHANGED <<sock, io, isInitialized, qrCode, session, contacts,
                   messages, sockState, sockUser, timers, attempts, nqr, ndisc,
                   nsend, lastTransition, lastWrite, discWithTimer, closure,
                   ingested>>

\* ------------------------------------------------- handleIncomingMessages
\* the chats of inbound items: a one-to-one chat and a group
InboundChats == {<<"7">> \o DefaultDomain, GroupChat}

\* an item of a messages.upsert batch: whether msg.message is set, the
\* key.fromMe flag and key.remoteJid; the items the loop skips (one without
\* content, one sent by this account) and one to process per chat
Items ==
    {[content |-> FALSE, fromMe |-> FALSE, chat |-> GroupChat],
     [content |-> TRUE, fromMe |-> TRUE, chat |-> GroupChat]}
    \cup {[content |-> TRUE, fromMe |-> FALSE, chat |-> ch] :
             ch \in InboundChats}

Batches == UNION {[1..n -> Items] : n \in 1..MaxBatchLen}

\* lines 120-121: the items the loop does not skip
Processable(items) ==
    {i \in 1..Len(items) : items[i].content /\ ~items[i].fromMe}

\* the next item the loop of line 119 processes after item i, 0 at the end
NextProcessable(items, i) ==
    IF \E j \in Processable(items) : j > i
    THEN CHOOSE j \in Processable(items) :
            j > i /\ \A k \in Processable(items) : k > i => j <= k
    ELSE 0

\* the rejection leaves the loop and the handler
AbortsBatch(items, i) == 0

\* lines 151-153: the rejection is caught and logged inside the loop body,
\* and the loop goes on with the next item
AfterFailure(items, i) == NextProcessable(items, i)

\* the Contact of lines 129-135
InboundContact(chatId) ==
    [id |-> chatId, number |-> SplitFirst(chatId, At),
     isGroup |-> Includes(chatId, GroupDomain)]

\* the Message of lines 137-144
InboundMessage(chatId) ==
    [chatId |-> chatId, from |-> chatId,
     to |-> IF sock # Null /\ sockUser[sock] THEN UserId ELSE <<>>,
     isFromMe |-> FALSE]

IngestTask(n, s, items, i, pc, ok) ==
    [kind |-> "ingest", id |-> n, s |-> s, items |-> items, idx |-> i,
     pc |-> pc, ok |-> ok]

\* the loop of lines 119-135 from item j (0: the batch is exhausted and the
\* handler returns) up to the await of createOrUpdateContact
ContinueBatch(n, s, items, j, ok, rest) ==
    IF j = 0
    THEN /\ tasks' = rest
         /\ UNCHANGED contacts
    ELSE /\ contacts' = IF ok
                        THEN UpsertContact(contacts,
                                           InboundContact(items[j].chat))
                        ELSE contacts
         /\ tasks' = rest \cup {IngestTask(n, s, items, j, "contact", ok)}

\* an open socket delivers a messages.upsert batch (lines 60-62)
SockMessages(s, items, ok) ==
    /\ sockState[s] = "open"
    /\ Len(ingested) < MaxBatches
    /\ Room
    /\ ingested' = Append(ingested,
                          [items |-> items, stored |-> {}, failed |-> {}])
    /\ ContinueBatch(Len(ingested) + 1, s, items, NextProcessable(items, 0),
                     ok, tasks)
    /\ emitted' = <<>>
    /\ ret' = NoRet
    /\ UNCHANGED <<sock, io, isInitialized, qrCode, session, messages,
                   sockState, sockUser, timers, attempts, nqr, ndisc, nsend,
                   lastTransition, lastWrite, discWithTimer, closure>>

\* after the await of line 129: lines 137-144 up to the await of
\* createMessage, or the catch of lines 151-153 and the next item
IngestContactResume(t, ok) ==
    /\ t \in tasks /\ t.kind = "ingest" /\ t.pc = "contact"
    /\ IF t.ok
       THEN /\ messages' =
                 IF ok
                 THEN Append(messages, InboundMessage(t.items[t.idx].chat))
                 ELSE messages
            /\ tasks' = (tasks \ {t})
                        \cup {[t EXCEPT !.pc = "message", !.ok = ok]}
            /\ UNCHANGED <<contacts, ingested>>
       ELSE /\ ingested' = [ingested EXCEPT ![t.id].failed = @ \cup {t.idx}]
            /\ ContinueBatch(t.id, t.s, t.items, AfterFailure(t.items, t.idx),
                             ok, tasks \ {t})
            /\ UNCHANGED messages
    /\ emitted' = <<>>
    /\ ret' = NoRet
    /\ UNCHANGED <<sock, io, isInitialized, qrCode, session, sockState,
                   sockUser, timers, attempts, nqr, ndisc, nsend,
                   lastTransition, lastWrite, discWithTimer, closure>>

\* after the await of line 137: the emission of lines 146-150, or the catch
\* of lines 151-153; then the next item
IngestMessageResume(t, ok) ==
    /\ t \in tasks /\ t.kind = "ingest" /\ t.pc = "message"
    /\ IF t.ok
       THEN /\ emitted' = Emit([name |-> "message",
                                chatId |-> t.items[t.idx].chat,
                                from |-> t.items[t.idx].chat])
            /\ ingested' = [ingested EXCEPT ![t.id].stored = @ \cup {t.idx}]
            /\ ContinueBatch(t.id, t.s, t.items,
                             NextProcessable(t.items, t.idx), ok, tasks \ {t})
       ELSE /\ emitted' = <<>>
            /\ ingested' = [ingested EXCEPT ![t.id].failed = @ \cup {t.idx}]
            /\ ContinueBatch(t.id, t.s, t.items, AfterFailure(t.items, t.idx),
                             ok, tasks \ {t})
    /\ ret' = NoRet
    /\ UNCHANGED <<sock, io, isInitialized, qrCode, session, messages,
                   sockState, sockUser, timers, attempts, nqr, ndisc, nsend,
                   lastTransition, lastWrite, discWithTimer, closure>>

\* ------------------------------------------------------------------- next
Next ==
    \/ Initialize
    \/ \E t \in tasks, ok \in BOOLEAN : ConnectDone(t, ok)
    \/ TimerFire
    \/ \E s \in SockIds, ok \in BOOLEAN : SockQR(s, ok)
    \/ \E s \in SockIds, ok \in BOOLEAN : SockOpen(s, ok)
    \/ \E s \in SockIds, code \in StatusCodes, ok \in BOOLEAN : SockClose(s, code, ok)
    \/ \E t \in tasks, ok \in BOOLEAN : QrResume(t, ok)
    \/ \E t \in tasks : CloseResume(t)
    \/ \E t \in tasks, fetched \in BOOLEAN, ok \in BOOLEAN : OpenResume(t, fetched, ok)
    \/ \E ok \in BOOLEAN : Disconnect(ok)
    \/ \E t \in tasks, lo \in BOOLEAN, okc \in BOOLEAN, ok \in BOOLEAN :
          LogoutResume(t, lo, okc, ok)
    \/ \E t \in tasks : DisconnectResume(t)
    \/ \E to \in Destinations : SendMessage(to)
    \/ \E t \in tasks, sent \in BOOLEAN : SendSessionResume(t, sent)
    \/ \E t \in tasks, ok \in BOOLEAN : SendTransportResume(t, ok)
    \/ \E t \in tasks, ok \in BOOLEAN : SendUpsertResume(t, ok)
    \/ \E t \in tasks : SendMessageResume(t)

Spec == Init /\ [][Next]_vars

\* the inbound path, on a session that is established, opened and closed
NextIngest ==
    \/ Initialize
    \/ \E t \in tasks, ok \in BOOLEAN : ConnectDone(t, ok)
    \/ \E s \in SockIds, ok \in BOOLEAN : SockOpen(s, ok)
    \/ \E s \in SockIds, code \in StatusCodes, ok \in BOOLEAN : SockClose(s, code, ok)
    \/ \E t \in tasks : CloseResume(t)
    \/ \E t \in tasks, fetched \in BOOLEAN, ok \in BOOLEAN : OpenResume(t, fetched, ok)
    \/ \E s \in SockIds, items \in Batches, ok \in BOOLEAN : SockMessages(s, items, ok)
    \/ \E t \in tasks, ok \in BOOLEAN : IngestContactResume(t, ok)
    \/ \E t \in tasks, ok \in BOOLEAN : IngestMessageResume(t, ok)

SpecIngest == Init /\ [][NextIngest]_vars

\* every suspended call resumes in the end (its await settles), and a
\* pending setTimeout callback runs in the end
Resumes ==
    \/ \E t \in tasks, ok \in BOOLEAN : ConnectDone(t, ok)
    \/ \E t \in tasks, ok \in BOOLEAN : QrResume(t, ok)
    \/ \E t \in tasks : CloseResume(t)
    \/ \E t \in tasks, fetched \in BOOLEAN, ok \in BOOLEAN : OpenResume(t, fetched, ok)
    \/ \E t \in tasks, lo \in BOOLEAN, okc \in BOOLEAN, ok \in BOOLEAN :
          LogoutResume(t, lo, okc, ok)
    \/ \E t \in tasks : DisconnectResume(t)
    \/ \E t \in tasks, sent \in BOOLEAN : SendSessionResume(t, sent)
    \/ \E t \in tasks, ok \in BOOLEAN : SendTransportResume(t, ok)
    \/ \E t \in tasks, ok \in BOOLEAN : SendUpsertResume(t, ok)
    \/ \E t \in tasks : SendMessageResume(t)

FairSpec == Spec /\ WF_vars(TimerFire) /\ WF_vars(Resumes)

\* ---------------------------------------------------------------- claims
UpdateTasks == {t \in tasks : t.kind = "update"}

\* C1: at most one ProtocolSession is live at any time, whatever the
\* interleaving of initialize(), disconnect(), connection updates and timers
C1_AtMostOneActiveSession == Cardinality(LiveSocks) <= 1

\* C2: once disconnect() was called with a reconnect timer pending and has
\* returned, the timer never fires: no connection-establishment attempt is
\* made until the next initialize()
C2_DisconnectCancelsTimer ==
    [][(discWithTimer /\ discWithTimer') => attempts' = attempts]_vars

\* C3: a closure handler that finishes has scheduled exactly one reconnect
\* when the status code is not the logged-out code, and none when it is
C3_OneReconnectPerClosure ==
    [][\A t \in tasks :
          (t.kind = "update" /\ t.pc = "close" /\ t \notin tasks')
          => timers' = timers + (IF t.code # LoggedOut THEN 1 ELSE 0)]_vars

\* C4: when initialize() fails to establish the connection, the error is
\* raised and the manager is not left marked initialized
C4_FailedInitializeNotInitialized ==
    (ret.op = "initialize" /\ ret.res = "error") => ~isInitialized

\* C5: disconnect() whose logout call fails still returns normally, with the
\* Session written as disconnected, the handle dropped and the manager
\* uninitialized
C5_DisconnectSurvivesLogoutFailure ==
    (ret.op = "disconnect" /\ ret.logoutFailed)
    => /\ ret.res = "ok"
       /\ ~session.isConnected
       /\ sock = Null
       /\ ~isInitialized

OpenWriteIssued(applied) ==
    \E t \in tasks' \ tasks :
        t.kind = "update" /\ t.pc = "open" /\ (applied => t.ok)

C7_Invariant == session.isConnected => session.qrCode = Null

C8_NotConnectedNoEffects ==
    [][(ret'.op = "send" /\ (~ret'.hadSock \/ ~ret'.sawConnected))
       => /\ ret'.res = "notConnected"
          /\ ~ret'.transported
          /\ ret'.writes = 0
          /\ UNCHANGED <<contacts, messages>>]_vars

C8_Witness ==
    ret.op = "send" /\ ret.hadSock /\ ~ret.sawConnected
    /\ ret.res = "notConnected"

\* C9: after a successful transport send, a failure to persist the Contact
\* or the Message is only logged and sendMessage returns success
C9_PersistFailureStillSucceeds ==
    (ret.op = "send" /\ ret.sent /\ ret.cause = "persist") => ret.res = "ok"

\* C10: a connection-update handler whose Session write failed still
\* completes its transition: closure emits disconnected and schedules the
\* reconnect of a non-logout reason, open emits ready, QR emits qr
C10_PersistFailureKeepsTransition ==
    [][\A t \in tasks :
          (t.kind = "update" /\ ~t.ok /\ t \notin tasks')
          => CASE t.pc = "close" ->
                    /\ emitted' = <<[name |-> "disconnected"]>>
                    /\ timers' = timers + (IF t.code # LoggedOut THEN 1 ELSE 0)
               [] t.pc = "open" -> emitted' = <<[name |-> "ready"]>>
               [] t.pc = "qr" -> emitted' = <<[name |-> "qr", qr |-> t.qr]>>]_vars

\* tasks started in this step
Started == tasks' \ tasks

\* C15: the handling of one connection-update event never interleaves with
\* the handling of another or with disconnect(): at most one of them is in
\* progress (suspended at an await) at any time
C15_TransitionsSerialized ==
    Cardinality({t \in tasks : t.kind \in {"update", "disconnect"}}) <= 1

\* a socket that was the session handle and has been replaced by a newer one
Retired(s) == sock # Null /\ s # sock /\ sockState[s] # "none"

\* C16: once a new session handle is installed, no event of a prior handle
\* is processed: no handler starts for it, and none of its suspended
\* handlers changes the Session, emits or schedules a reconnect
C16_RetiredSessionIgnored ==
    [][\A s \in SockIds :
          Retired(s) =>
             /\ ~\E t \in Started : t.kind \in {"update", "ingest"} /\ t.s = s
             /\ \A t \in tasks \ tasks' :
                   (t.kind \in {"update", "ingest"} /\ t.s = s)
                   => /\ emitted' = <<>>
                      /\ timers' = timers
                      /\ session' = session]_vars

\* C18: whenever a qr event is emitted, the persisted Session at that
\* moment has isConnected false and qrCode equal to the emitted QR value
C18_QrEmittedWithSessionWritten ==
    [][\A i \in 1..Len(emitted') :
          emitted'[i].name = "qr"
          => /\ ~session'.isConnected
             /\ session'.qrCode = emitted'[i].qr]_vars

\* C20: sendMessage calls the transport only on a session handle that is
\* open at the moment of the call
C20_TransportOnlyOnOpenSession ==
    [][\A t \in Started :
          (t.kind = "send" /\ t.pc = "transport")
          => sockState'[t.s] = "open"]_vars

\* C14: initialize() on an initialized manager is a silent no-op: it starts
\* no connection establishment (no new session, no handlers), raises nothing
\* and leaves the handle, the flag and the persisted Session as they were
C14_InitializeIdempotent ==
    [][/\ isInitialized
          => ~\E t \in Started : t.kind = "connect" /\ t.from = "init"
       /\ (ret'.op = "initialize" /\ ret'.res = "noop")
          => /\ isInitialized
             /\ UNCHANGED <<sock, io, isInitialized, qrCode, session, contacts,
                            messages, sockState, sockUser, timers, tasks,
                            attempts>>]_vars

C14_Witness ==
    ret.op = "initialize" /\ ret.res = "noop" /\ isInitialized /\ sock # Null

\* the chat identifier the destination stands for: unchanged when it holds
\* the domain separator, with the one-to-one domain appended otherwise
Normalized(to) ==
    IF \E i \in 1..Len(to) : to[i] = "@"
    THEN to
    ELSE to \o <<"@", "s", ".", "w", "h", "a", "t", "s", "a", "p", "p", ".",
                 "n", "e", "t">>

\* C17: the chat identifier of the transport send and of the persisted
\* Message is the destination unchanged when it contains '@' (group
\* identifiers included), and the destination with '@s.whatsapp.net'
\* appended otherwise
C17_DestinationNormalized ==
    [][\A t \in Started :
          t.kind = "send"
          => /\ t.pc = "transport" => t.chatId = Normalized(t.to)
             /\ (t.pc = "message" /\ t.ok)
                => /\ Len(messages') = Len(messages) + 1
                   /\ messages'[Len(messages')].chatId = Normalized(t.to)
                   /\ messages'[Len(messages')].to = Normalized(t.to)]_vars

C17_Witness ==
    /\ ret.op = "send" /\ ret.res = "ok" /\ ret.to = GroupChat
    /\ Len(messages) > 0
    /\ messages[Len(messages)].chatId = GroupChat

\* C12: after a closure with the logged-out code, the next initialize()
\* starts a connection establishment and does not return as a no-op
C12_InitializeAfterLogoutStartsFresh ==
    (ret.op = "initialize" /\ ret.res = "noop") => closure # "logout"

\* C13: when disconnect(), called on an open session, returns successfully,
\* the handle is null, the persisted Session is disconnected with no phone
\* number and no QR, and the manager is uninitialized, so that the next
\* initialize() makes a new session
C13_DisconnectLeavesIdle ==
    (ret.op = "disconnect" /\ ret.res = "ok" /\ ret.fromOpen)
    => /\ sock = Null
       /\ ~session.isConnected
       /\ session.phoneNumber = <<>>
       /\ session.qrCode = Null
       /\ ~isInitialized

\* C19: with timers and awaits that settle in the end, every closure with a
\* code other than logged-out that is not followed by disconnect() is
\* followed by a new connection establishment (while the bound on
\* establishments leaves room for one)
C19_ClosureLeadsToReconnect ==
    (closure = "retry" /\ attempts < MaxAttempts) ~> (closure # "retry")

\* the handler of batch b returns in this step
BatchEnds(b) ==
    /\ \E t \in tasks : t.kind = "ingest" /\ t.id = b
    /\ ~\E t \in tasks' : t.kind = "ingest" /\ t.id = b

\* C11: when the handler of an inbound batch returns, every item with
\* content that is not self-originated was processed, whatever failed
\* before it, and each of them without a rejected write has its Contact and
\* its Message persisted; its message event was emitted when its Message
\* write returned
C11_BatchFailureIsolated ==
    [][\A b \in 1..Len(ingested') :
          LET log == ingested'[b] IN
          /\ BatchEnds(b)
             => \A i \in Processable(log.items) :
                   /\ i \in log.stored \cup log.failed
                   /\ i \in log.stored
                      => /\ log.items[i].chat \in DOMAIN contacts'
                         /\ \E k \in 1..Len(messages') :
                               /\ messages'[k].chatId = log.items[i].chat
                               /\ ~messages'[k].isFromMe
          /\ b <= Len(ingested)
             => \A i \in log.stored \ ingested[b].stored :
                   emitted' = <<[name |-> "message",
                                 chatId |-> log.items[i].chat,
                                 from |-> log.items[i].chat]>>]_vars

\* a batch of three whose second item had a rejected write and whose first
\* and third items are stored
C11_Witness ==
    \E b \in 1..Len(ingested) :
        /\ ingested[b].failed = {2}
        /\ ingested[b].stored = {1, 3}
        /\ ~\E t \in tasks : t.kind = "ingest"

====
